---- MODULE Spec2Model ----
(***************************************************************************)
(* The board/piece state machine of next-tetris, in its four builds:       *)
(*   "dom"        src/components/tetris/tetris-2d.tsx, lines 1-281         *)
(*   "canvas"     src/components/tetris/tetris-2d.tsx, lines 282-772       *)
(*                (hold, wall kicks, hard drop, high score)                *)
(*   "flat3d"     src/components/tetris/tetris-3d.tsx (2D board, 3D view)  *)
(*   "volumetric" src/components/tetris/tetris-3d-crazy-3d.tsx             *)
(* Every handler (a key intent or the gravity tick) is one atomic action:  *)
(* it reads the state of the render it closed over and its setState calls  *)
(* take effect together when it returns (the last setPiece wins).          *)
(* Coordinates are the source's 0-based ones; sequences are 1-based, so    *)
(* cell (row, col) of a board is board[row + 1][col + 1].                  *)
(***************************************************************************)
EXTENDS Integers, Sequences, FiniteSets, TLC

VARIABLES
    build,        \* which of the four components this session is
    extent,       \* [width, height, depth]: the board's fixed dimensions
    board,        \* useState<Board>: rows of cells (planes of rows, volumetric)
    piece,        \* useState<Piece | null>
    nextPiece,    \* useState<Piece | null>
    storedPiece,  \* useState<Piece | null>   (canvas build)
    canStore,     \* useState(true)           (canvas build)
    score,        \* useState(0)
    level,        \* useState(1)
    speed,        \* useState(INITIAL_SPEED)
    gameOver,     \* useState(false)
    highScore,    \* useState(localStorage value) (canvas build)
    locksLeft,    \* how many more locks the run is followed for (bounds the run)
    last          \* what the last handler did (history, read by the properties)

vars == <<build, extent, board, piece, nextPiece, storedPiece, canStore, score,
          level, speed, gameOver, highScore, locksLeft, last>>

-----------------------------------------------------------------------------
(* Program constants *)

BOARD_WIDTH == 10
BOARD_HEIGHT == 20
BOARD_DEPTH == 10
INITIAL_SPEED == 500
INITIAL_SPEED_VOLUMETRIC == 1000
SPEED_INCREMENT == 50
LEVEL_THRESHOLD == 1000
MIN_SPEED == 100

(* Bounds of the model *)

ScaledWidth == 4      \* board width explored exhaustively (the source's is 10)
ScaledHeight == 5     \* board height explored exhaustively (the source's is 20)
ScaledDepth == 2      \* board depth explored exhaustively (the source's is 10)
NumShapes == 2        \* createNewPiece draws among SHAPES[1..NumShapes]
MaxLocks == 2         \* a run is followed for this many locks
LevelLocks == 1       \* a run from a played-in session is followed for this many locks
PureWidth == 2        \* board width when isValidMove and clearLines are applied on their own
PureHeight == 3       \* board height for the same (2D builds)
PureVolHeight == 2    \* board height for the same (volumetric build)
PureDepth == 2        \* board depth for the same (volumetric build)
PureReach == 1        \* how far off the board the pieces tried by isValidMove start
PureApplications == 2 \* clearLines is applied this many times in a row
KickWidth == 3        \* board width when rotate is applied to every board and piece
KickHeight == 3       \* board height for the same
StoredHigh == 12      \* a high score found in localStorage that one lock can exceed
TickWidth == 5        \* board width for runs of gravity ticks: like 10, wider than any piece
TickHeight == 5       \* board height for the same
TickLocks == 8        \* such a run is followed for this many locks

Builds == {"dom", "canvas", "flat3d", "volumetric"}
KickBuilds == {"canvas"}
PlainRotateBuilds == {"dom", "flat3d"}
ValidatingBuilds == {"canvas", "flat3d", "volumetric"}

Null == [null |-> TRUE]

Max(a, b) == IF a >= b THEN a ELSE b

\* The sequence f of length n, written out (f itself, as a tuple).
Tup(f, n) == SubSeq(f, 1, n)

-----------------------------------------------------------------------------
(* Shape catalog *)

GRIDS ==
    << << <<1, 1, 1, 1>> >>,
       << <<1, 1>>, <<1, 1>> >>,
       << <<1, 1, 1>>, <<0, 1, 0>> >>,
       << <<1, 1, 1>>, <<1, 0, 0>> >>,
       << <<1, 1, 1>>, <<0, 0, 1>> >>,
       << <<1, 1, 0>>, <<0, 1, 1>> >>,
       << <<0, 1, 1>>, <<1, 1, 0>> >> >>

HEX == <<"#00FFFF", "#FFFF00", "#800080", "#0000FF", "#FFA500", "#00FF00", "#FF0000">>

\* DOM build: the colour is the cell value itself.
SHAPES_DOM == Tup([i \in 1..7 |-> [shape |-> GRIDS[i], color |-> i]], 7)
\* canvas and flat3d builds: the colour is a string.
SHAPES == Tup([i \in 1..7 |-> [shape |-> GRIDS[i], color |-> HEX[i]]], 7)
\* volumetric build: each template is one depth layer.
SHAPES_VOL == Tup([i \in 1..7 |-> [shape |-> <<GRIDS[i]>>, color |-> HEX[i]]], 7)

\* SHAPES.findIndex(s => s.color === color) + 1; findIndex gives -1 when absent.
ColorIndex(color) ==
    IF \E i \in 1..7 : SHAPES[i].color = color
    THEN CHOOSE i \in 1..7 : SHAPES[i].color = color /\ \A j \in 1..(i - 1) : SHAPES[j].color # color
    ELSE 0

\* Array(BOARD_WIDTH).fill(0)
EmptyRow == Tup([x \in 1..extent.width |-> 0], extent.width)

-----------------------------------------------------------------------------
(* 2D builds: dom, canvas, flat3d *)

\* Variant: the piece is put against the left wall.
createNewPieceAtWall(b, i) ==
    LET t == IF b = "dom" THEN SHAPES_DOM[i] ELSE SHAPES[i]
    IN  [shape |-> t.shape, color |-> t.color, position |-> [x |-> 0, y |-> 0]]

\* createNewPiece with Math.floor(Math.random() * SHAPES.length) = i - 1
createNewPiece(b, i) ==
    LET t == IF b = "dom" THEN SHAPES_DOM[i] ELSE SHAPES[i]
    IN  [shape |-> t.shape,
         color |-> t.color,
         position |-> [x |-> (extent.width \div 2) - (Len(t.shape[1]) \div 2), y |-> 0]]

\* The occupied sub-cells of a 2D piece as board coordinates <<row, col>>.
Cells(p) ==
    UNION {{<<p.position.y + (y - 1), p.position.x + (x - 1)>> :
                x \in {k \in 1..Len(p.shape[y]) : p.shape[y][k] # 0}} :
           y \in 1..Len(p.shape)}

\* Variant: the floor is taken to be one row higher.
isValidMoveShortFloor(p, bd) ==
    \A y \in 1..Len(p.shape) :
        \A x \in 1..Len(p.shape[y]) :
            p.shape[y][x] # 0 =>
                LET newX == p.position.x + (x - 1)
                    newY == p.position.y + (y - 1)
                IN  ~(\/ newX < 0
                      \/ newX >= extent.width
                      \/ newY >= extent.height - 1
                      \/ (newY >= 0 /\ bd[newY + 1][newX + 1] # 0))

isValidMove(p, bd) ==
    \A y \in 1..Len(p.shape) :
        \A x \in 1..Len(p.shape[y]) :
            p.shape[y][x] # 0 =>
                LET newX == p.position.x + (x - 1)
                    newY == p.position.y + (y - 1)
                IN  ~(\/ newX < 0
                      \/ newX >= extent.width
                      \/ newY >= extent.height
                      \/ (newY >= 0 /\ bd[newY + 1][newX + 1] # 0))

\* The value mergePieceToBoard writes for a piece.
CellValue(b, p) == IF b = "dom" THEN p.color ELSE ColorIndex(p.color)

\* newBoard[row] is undefined for a row outside the board: the write throws.
MergeThrows(p) == \E c \in Cells(p) : c[1] < 0 \/ c[1] >= extent.height

\* Sub-cell (sy, sx) of grid g, counted from 1, exists and is occupied.
Occupied(g, sy, sx) ==
    /\ sy >= 1
    /\ sy <= Len(g)
    /\ sx >= 1
    /\ sx <= Len(g[sy])
    /\ g[sy][sx] # 0

mergePieceToBoard(b, p, bd) ==
    LET value == CellValue(b, p)
    IN  Tup([y \in 1..extent.height |->
                Tup([x \in 1..extent.width |->
                        IF Occupied(p.shape, y - p.position.y, x - p.position.x)
                        THEN value
                        ELSE bd[y][x]], extent.width)], extent.height)

\* Variant: a row counts as full as soon as one of its cells is taken.
IsFullRowAny(row) == \E x \in 1..Len(row) : row[x] # 0

\* Variant: the empty rows are appended below the kept ones.
PadBottom(rows) ==
    rows \o Tup([i \in 1..(extent.height - Len(rows)) |-> EmptyRow], extent.height - Len(rows))

\* Variant: the rows removed are not replaced.
PadTopNever(rows) == rows

\* Variant: no row ever counts as full.
IsFullRowNever(row) == FALSE

\* row.every(cell => cell !== 0)
IsFullRow(row) == \A x \in 1..Len(row) : row[x] # 0

\* while (newBoard.length < BOARD_HEIGHT) newBoard.unshift(Array(BOARD_WIDTH).fill(0))
RECURSIVE PadTop(_)
PadTop(rows) == IF Len(rows) < extent.height THEN PadTop(<<EmptyRow>> \o rows) ELSE rows

\* linesCleared is incremented once for every row the filter drops.
clearLines(bd) ==
    LET kept == SelectSeq(bd, LAMBDA row : ~IsFullRow(row))
    IN  [newBoard |-> PadTop(kept), linesCleared |-> Len(bd) - Len(kept)]

\* Variant: the quarter-turn the other way round.
RotateGridCounter(g) ==
    Tup([index \in 1..Len(g[1]) |->
            Tup([j \in 1..Len(g) |-> g[j][Len(g[1]) + 1 - index]], Len(g))], Len(g[1]))

\* piece.shape[0].map((_, index) => piece.shape.map(row => row[index]).reverse())
RotateGrid(g) ==
    Tup([index \in 1..Len(g[1]) |->
            Tup([j \in 1..Len(g) |-> g[Len(g) + 1 - j][index]], Len(g))], Len(g[1]))

\* Variant: every move is by two cells.
MovedByTwo(p, dx, dy) ==
    [p EXCEPT !.position.x = @ + 2 * dx, !.position.y = @ + 2 * dy]

\* { ...piece, position: { ...piece.position, x: x + dx, y: y + dy } }
MovedBy(p, dx, dy) ==
    [p EXCEPT !.position.x = @ + dx, !.position.y = @ + dy]

-----------------------------------------------------------------------------
(* Volumetric build.  A shape is a sequence of depth layers, each a grid.    *)
(* rotate('x') and rotate('y') build grids whose entries are themselves      *)
(* arrays; isValidMove and mergePieceToBoard only test such an entry for     *)
(* truthiness and no rotation ever unwraps it, so an array entry is the      *)
(* opaque truthy value ARR.                                                  *)

ARR == 2

createNewPiece3D(i) ==
    LET t == SHAPES_VOL[i]
    IN  [shape |-> t.shape,
         color |-> t.color,
         position |-> [x |-> (extent.width \div 2) - (Len(t.shape[1][1]) \div 2),
                       y |-> 0,
                       z |-> (extent.depth \div 2) - (Len(t.shape[1]) \div 2)]]

\* The occupied sub-cells of a volumetric piece as <<layer, row, col>>.
Cells3D(p) ==
    UNION {UNION {{<<p.position.z + (z - 1), p.position.y + (y - 1), p.position.x + (x - 1)>> :
                      x \in {k \in 1..Len(p.shape[z][y]) : p.shape[z][y][k] # 0}} :
                  y \in 1..Len(p.shape[z])} :
           z \in 1..Len(p.shape)}

isValidMove3D(p, bd) ==
    \A z \in 1..Len(p.shape) :
        \A y \in 1..Len(p.shape[z]) :
            \A x \in 1..Len(p.shape[z][y]) :
                p.shape[z][y][x] # 0 =>
                    LET newX == p.position.x + (x - 1)
                        newY == p.position.y + (y - 1)
                        newZ == p.position.z + (z - 1)
                    IN  ~(\/ newX < 0
                          \/ newX >= extent.width
                          \/ newY >= extent.height
                          \/ newZ < 0
                          \/ newZ >= extent.depth
                          \/ (newY >= 0 /\ bd[newZ + 1][newY + 1][newX + 1] # 0))

MergeThrows3D(p) ==
    \E c \in Cells3D(p) :
        c[1] < 0 \/ c[1] >= extent.depth \/ c[2] < 0 \/ c[2] >= extent.height

mergePieceToBoard3D(p, bd) ==
    LET value == ColorIndex(p.color)
    IN  Tup([z \in 1..extent.depth |->
                Tup([y \in 1..extent.height |->
                        Tup([x \in 1..extent.width |->
                                IF /\ z - p.position.z >= 1
                                   /\ z - p.position.z <= Len(p.shape)
                                   /\ Occupied(p.shape[z - p.position.z],
                                               y - p.position.y, x - p.position.x)
                                THEN value
                                ELSE bd[z][y][x]], extent.width)], extent.height)],
            extent.depth)

RECURSIVE SumLines(_, _)
SumLines(f, n) == IF n = 0 THEN 0 ELSE f[n] + SumLines(f, n - 1)

\* Each plane is filtered and padded on its own; linesCleared counts every
\* removed row of every plane.
clearLines3D(bd) ==
    LET per == Tup([z \in 1..Len(bd) |-> clearLines(bd[z])], Len(bd))
    IN  [newBoard |-> Tup([z \in 1..Len(bd) |-> per[z].newBoard], Len(bd)),
         linesCleared |-> SumLines(Tup([z \in 1..Len(bd) |-> per[z].linesCleared], Len(bd)),
                                   Len(bd))]

\* case 'x': piece.shape[0].map((_, y) => piece.shape.map(plane => plane[y]).reverse())
\* One row per row of layer 0; its entries are the rows plane[y], one per layer.
RotateX(shape) ==
    Tup([y \in 1..Len(shape[1]) |-> Tup([k \in 1..Len(shape) |-> ARR], Len(shape))],
        Len(shape[1]))

\* case 'y': piece.shape.map(plane => plane[0].map((_, x) => plane.map(row => row[x]).reverse()))
\* One row per layer; its entries are the rows of that layer's rotated grid.
RotateY(shape) ==
    Tup([z \in 1..Len(shape) |->
            Tup([x \in 1..Len(RotateGrid(shape[z])) |-> ARR], Len(RotateGrid(shape[z])))],
        Len(shape))

\* case 'z': piece.shape[0][0].map((_, x) => piece.shape[0].map(row => row[x]).reverse())
RotateZ(shape) == RotateGrid(shape[1])

RotateAxisGrid(axis, shape) ==
    CASE axis = "x" -> RotateX(shape)
      [] axis = "y" -> RotateY(shape)
      [] axis = "z" -> RotateZ(shape)

-----------------------------------------------------------------------------
(* Dispatch on the build *)

\* Variant: a sub-cell above the board is accepted whatever its column or layer.
ValidSkippingAbove(p, bd) ==
    IF build = "volumetric"
    THEN \A c \in {d \in Cells3D(p) : d[2] >= 0} :
            /\ c[1] >= 0 /\ c[1] < extent.depth
            /\ c[2] < extent.height
            /\ c[3] >= 0 /\ c[3] < extent.width
            /\ bd[c[1] + 1][c[2] + 1][c[3] + 1] = 0
    ELSE \A c \in {d \in Cells(p) : d[1] >= 0} :
            /\ c[1] < extent.height
            /\ c[2] >= 0 /\ c[2] < extent.width
            /\ bd[c[1] + 1][c[2] + 1] = 0

\* Variant: only the bounds are checked, never the board.
ValidIgnoringBoard(p, bd) ==
    IF build = "volumetric"
    THEN \A c \in Cells3D(p) :
            /\ c[1] >= 0 /\ c[1] < extent.depth
            /\ c[2] < extent.height
            /\ c[3] >= 0 /\ c[3] < extent.width
    ELSE \A c \in Cells(p) :
            /\ c[1] < extent.height
            /\ c[2] >= 0 /\ c[2] < extent.width

New(i) == IF build = "volumetric" THEN createNewPiece3D(i) ELSE createNewPiece(build, i)
Valid(p, bd) == IF build = "volumetric" THEN isValidMove3D(p, bd) ELSE isValidMove(p, bd)
Throws(p) == IF build = "volumetric" THEN MergeThrows3D(p) ELSE MergeThrows(p)
Merge(p, bd) ==
    IF build = "volumetric" THEN mergePieceToBoard3D(p, bd) ELSE mergePieceToBoard(build, p, bd)
Clear(bd) == IF build = "volumetric" THEN clearLines3D(bd) ELSE clearLines(bd)

\* The merge of p writes at a column index outside [0, BOARD_WIDTH): the array
\* of the row grows, or gets a property that is not a cell.
Offside(p) ==
    IF build = "volumetric"
    THEN \E c \in Cells3D(p) : c[3] < 0 \/ c[3] >= extent.width
    ELSE \E c \in Cells(p) : c[2] < 0 \/ c[2] >= extent.width

\* The board cells a piece covers that lie on the board.
Footprint(p) ==
    IF build = "volumetric"
    THEN {c \in Cells3D(p) : c[1] >= 0 /\ c[1] < extent.depth /\ c[2] >= 0 /\ c[2] < extent.height
                              /\ c[3] >= 0 /\ c[3] < extent.width}
    ELSE {c \in Cells(p) : c[1] >= 0 /\ c[1] < extent.height /\ c[2] >= 0 /\ c[2] < extent.width}

CellAt(bd, c) ==
    IF build = "volumetric" THEN bd[c[1] + 1][c[2] + 1][c[3] + 1] ELSE bd[c[1] + 1][c[2] + 1]

\* The merge of p writes onto a cell that is not empty.
Overwrites(p, bd) == \E c \in Footprint(p) : CellAt(bd, c) # 0

-----------------------------------------------------------------------------
(* History of the last handler call.  Handlers that neither lock, throw, kick *)
(* nor store leave the record Idle.                                           *)

Quiet(op) ==
    [op |-> op,            \* the handler that ran
     locked |-> FALSE,     \* it merged a piece into the board
     lines |-> 0,          \* linesCleared of that lock
     dist |-> 0,           \* rows between the piece and where it was merged
     blocked |-> FALSE,    \* the piece to promote failed isValidMove on the cleared board
     installed |-> FALSE,  \* setPiece(candidate) was called by the lock sequence
     overlap |-> FALSE,    \* the merge wrote onto a cell that was not empty
     threw |-> FALSE,      \* the handler threw (a write to a row off the board)
     levelUp |-> FALSE,    \* setLevel(prevLevel => prevLevel + 1) was called
     swap |-> FALSE,       \* storePiece ran with a piece held
     valid |-> FALSE,      \* what isValidMove returned, when it was called on its own
     offside |-> FALSE,    \* the merge wrote at a column index off the board
     kick |-> 0]           \* index of the accepted wall kick, 0 when none

Idle == Quiet("none")

\* Variant: the handlers keep running after game over.
RunningAfterOver == locksLeft > 0

\* handleKeyPress returns when gameOver and the gravity interval is cleared;
\* the run is followed until its last lock.
Running == ~gameOver /\ locksLeft > 0

-----------------------------------------------------------------------------
(* Initial state: the component after its first render *)

\* st = [score, level, speed]: how far the session has been played (Fresh: not at all)
InitSession(b, w, h, d, budget, st) ==
    /\ build = b
    /\ extent = [width |-> w, height |-> h, depth |-> d]
    /\ board = (IF b = "volumetric"
                THEN Tup([z \in 1..d |-> Tup([y \in 1..h |-> Tup([x \in 1..w |-> 0], w)], h)], d)
                ELSE Tup([y \in 1..h |-> Tup([x \in 1..w |-> 0], w)], h))
    /\ IF st.score = 0
       THEN piece = Null /\ nextPiece = Null
       ELSE \E i, j \in 1..NumShapes : piece = New(i) /\ nextPiece = New(j)
    /\ storedPiece = Null
    /\ canStore = TRUE
    /\ score = st.score
    /\ level = st.level
    /\ speed = st.speed
    /\ gameOver = FALSE
    /\ highScore = (IF b = "canvas" THEN st.score ELSE 0)
    /\ locksLeft = budget
    /\ last = Quiet("init")

Fresh(b) ==
    [score |-> 0, level |-> 1,
     speed |-> IF b = "volumetric" THEN INITIAL_SPEED_VOLUMETRIC ELSE INITIAL_SPEED]

Init ==
    \E b \in Builds :
        InitSession(b, ScaledWidth, ScaledHeight, ScaledDepth, MaxLocks, Fresh(b))

-----
(* The spawn effect: useEffect(() => { if (!piece && !gameOver) ... }) *)

Spawn ==
    /\ piece = Null
    /\ ~gameOver
    /\ \E i, j \in 1..NumShapes :
        IF build \in ValidatingBuilds /\ ~Valid(New(i), board)
        THEN /\ gameOver' = TRUE
             /\ last' = [Quiet("spawn") EXCEPT !.blocked = TRUE]
             /\ UNCHANGED <<piece, nextPiece>>
        ELSE /\ piece' = New(i)
             /\ nextPiece' = New(j)
             /\ last' = Quiet("spawn")
             /\ UNCHANGED gameOver
    /\ UNCHANGED <<build, extent, board, storedPiece, canStore, score, level, speed,
                   highScore, locksLeft>>

-----------------------------------------------------------------------------
(* The lock sequence of moveDown and hardDrop *)

\* Variant: a score linear in the number of lines.
ScoreDeltaLinear(linesCleared, bonus) == linesCleared * 100 + 10 + bonus

\* Variant: without the 10 points of the lock itself.
ScoreDeltaNoBase(linesCleared, bonus) == linesCleared * linesCleared * 100 + bonus

\* linesCleared * linesCleared * 100, + 10, + the hard drop's bonus
ScoreDelta(linesCleared, bonus) == linesCleared * linesCleared * 100 + 10 + bonus

\* Variant: the threshold itself does not raise the level.
LevelUpStrict(newScore, lvl) == newScore > lvl * LEVEL_THRESHOLD

\* Variant: the threshold of the level after the next.
LevelUpLate(newScore, lvl) == newScore >= (lvl + 1) * LEVEL_THRESHOLD

\* if (newScore >= level * LEVEL_THRESHOLD)
LevelUp(newScore, lvl) == newScore >= lvl * LEVEL_THRESHOLD

\* Variant: no floor.
NextSpeedNoFloor(prevSpeed) == prevSpeed - SPEED_INCREMENT

\* setSpeed(prevSpeed => Math.max(prevSpeed - SPEED_INCREMENT, 100))
NextSpeed(prevSpeed) == Max(prevSpeed - SPEED_INCREMENT, MIN_SPEED)

\* Variant: no build validates the piece it promotes.
ChecksPromotionNever(b, next) == FALSE

\* The dom build promotes an existing nextPiece without calling isValidMove.
ChecksPromotion(b, next) == b # "dom" \/ next = Null

\* Variant: the promotion does not call setCanStore(true).
PromoteKeepsStore(cand, clearedBoard, pending, hist) ==
    LET blocked == ~Valid(cand, clearedBoard)
        install == ~ChecksPromotion(build, nextPiece) \/ ~blocked
    IN  /\ IF install
           THEN /\ piece' = cand
                /\ \E i \in 1..NumShapes : nextPiece' = New(i)
                /\ UNCHANGED <<gameOver, canStore>>
           ELSE /\ gameOver' = TRUE
                /\ piece' = pending
                /\ UNCHANGED <<nextPiece, canStore>>
        /\ last' = [hist EXCEPT !.blocked = blocked, !.installed = install]

\* The end of the lock sequence: promote cand on the cleared board, or end the game.
\* pending is what an earlier setPiece of the same handler left in `piece`.
Promote(cand, clearedBoard, pending, hist) ==
    LET blocked == ~Valid(cand, clearedBoard)
        install == ~ChecksPromotion(build, nextPiece) \/ ~blocked
    IN  /\ IF install
           THEN /\ piece' = cand
                /\ \E i \in 1..NumShapes : nextPiece' = New(i)
                /\ canStore' = (IF build = "canvas" THEN TRUE ELSE canStore)
                /\ UNCHANGED gameOver
           ELSE /\ gameOver' = TRUE
                /\ piece' = pending
                /\ UNCHANGED <<nextPiece, canStore>>
        /\ last' = [hist EXCEPT !.blocked = blocked, !.installed = install]

\* Variant: the high score is never replaced.
NextHighScoreKept(newScore) == highScore

\* if (newScore > highScore) setHighScore(newScore)   (canvas build only)
NextHighScore(newScore) ==
    IF build = "canvas" /\ newScore > highScore THEN newScore ELSE highScore

\* op: the handler; p: the piece merged; bonus: the hard drop's bonus.
LockAndAdvance(op, pending, p, bonus) ==
    IF Throws(p)
    THEN /\ piece' = pending
         /\ last' = [Quiet(op) EXCEPT !.threw = TRUE, !.dist = bonus]
         /\ UNCHANGED <<build, extent, board, nextPiece, storedPiece, canStore, score,
                        level, speed, gameOver, highScore, locksLeft>>
    ELSE /\ locksLeft > 0
         /\ LET res == Clear(Merge(p, board))
                newScore == score + ScoreDelta(res.linesCleared, bonus)
                hist == [Quiet(op) EXCEPT !.locked = TRUE,
                                          !.lines = res.linesCleared,
                                          !.dist = bonus,
                                          !.levelUp = LevelUp(newScore, level),
                                          !.overlap = Overwrites(p, board),
                                          !.offside = Offside(p)]
            IN  /\ board' = res.newBoard
                /\ score' = newScore
                /\ highScore' = NextHighScore(newScore)
                /\ level' = (IF LevelUp(newScore, level) THEN level + 1 ELSE level)
                /\ speed' = (IF LevelUp(newScore, level) THEN NextSpeed(speed) ELSE speed)
                /\ IF nextPiece # Null
                   THEN Promote(nextPiece, board', pending, hist)
                   ELSE \E j \in 1..NumShapes : Promote(New(j), board', pending, hist)
         /\ locksLeft' = locksLeft - 1
         /\ UNCHANGED <<build, extent, storedPiece>>

\* A handler that returns without calling any setter.
Ignored ==
    /\ last' = Idle
    /\ UNCHANGED <<build, extent, board, piece, nextPiece, storedPiece, canStore, score,
                   level, speed, gameOver, highScore, locksLeft>>

\* The same, for a handler whose refusal the history names.
Refused(op) ==
    /\ last' = Quiet(op)
    /\ UNCHANGED <<build, extent, board, piece, nextPiece, storedPiece, canStore, score,
                   level, speed, gameOver, highScore, locksLeft>>

\* A handler whose only setter call is setPiece(p).
SetPiece(p, hist) ==
    /\ piece' = p
    /\ last' = hist
    /\ UNCHANGED <<build, extent, board, nextPiece, storedPiece, canStore, score,
                   level, speed, gameOver, highScore, locksLeft>>

-----------------------------------------------------------------------------
(* moveDown: the gravity tick and the ArrowDown intent, every build *)

MoveDown ==
    /\ Running
    /\ IF piece = Null
       THEN Ignored
       ELSE IF Valid(MovedBy(piece, 0, 1), board)
            THEN SetPiece(MovedBy(piece, 0, 1), Idle)
            ELSE LockAndAdvance("moveDown", piece, piece, 0)

(* moveSideways, every build *)

MoveSideways ==
    /\ Running
    /\ \E dx \in {-1, 1} :
        IF piece = Null
        THEN Ignored
        ELSE IF Valid(MovedBy(piece, dx, 0), board)
             THEN SetPiece(MovedBy(piece, dx, 0), Idle)
             ELSE Ignored

(* moveDepth, volumetric build: 'forward' is -1, 'backward' is +1 *)

MoveDepth ==
    /\ Running
    /\ build = "volumetric"
    /\ \E dz \in {-1, 1} :
        IF piece = Null
        THEN Ignored
        ELSE LET newPiece == [piece EXCEPT !.position.z = @ + dz]
             IN  IF Valid(newPiece, board)
                 THEN SetPiece(newPiece, Idle)
                 ELSE Ignored

-----------------------------------------------------------------------------
(* rotate *)

\* dom and flat3d builds: the rotated piece is installed only if it is valid
RotatePlain ==
    /\ Running
    /\ build \in PlainRotateBuilds
    /\ IF piece = Null
       THEN Ignored
       ELSE LET newPiece == [piece EXCEPT !.shape = RotateGrid(piece.shape)]
            IN  IF Valid(newPiece, board)
                THEN SetPiece(newPiece, Idle)
                ELSE Ignored

\* Variant: the kick one row up is tried before the kicks to the sides.
KICKS_UpFirst ==
    << [x |-> 0, y |-> -1], [x |-> 1, y |-> 0], [x |-> -1, y |-> 0],
       [x |-> 1, y |-> -1], [x |-> -1, y |-> -1] >>

KICKS ==
    << [x |-> 1, y |-> 0], [x |-> -1, y |-> 0], [x |-> 0, y |-> -1],
       [x |-> 1, y |-> -1], [x |-> -1, y |-> -1] >>

Kicked(p, k) == MovedBy(p, KICKS[k].x, KICKS[k].y)

\* The index of the first kick that isValidMove accepts, 0 when none does.
FirstKick(p, bd) ==
    IF \E k \in 1..Len(KICKS) : isValidMove(Kicked(p, k), bd)
    THEN CHOOSE k \in 1..Len(KICKS) :
            /\ isValidMove(Kicked(p, k), bd)
            /\ \A m \in 1..(k - 1) : ~isValidMove(Kicked(p, m), bd)
    ELSE 0

\* canvas build: wall kicks
RotateKick ==
    /\ Running
    /\ build \in KickBuilds
    /\ IF piece = Null
       THEN Ignored
       ELSE LET newPiece == [piece EXCEPT !.shape = RotateGrid(piece.shape)]
                k == FirstKick(newPiece, board)
            IN  IF isValidMove(newPiece, board)
                THEN SetPiece(newPiece, Idle)
                ELSE IF k # 0
                     THEN SetPiece(Kicked(newPiece, k), [Quiet("rotate") EXCEPT !.kick = k])
                     ELSE Ignored

\* volumetric build: rotate(axis); the new shape is [newShape]
RotateAxis ==
    /\ Running
    /\ build = "volumetric"
    /\ \E axis \in {"x", "y", "z"} :
        IF piece = Null
        THEN Ignored
        ELSE LET newPiece == [piece EXCEPT !.shape = <<RotateAxisGrid(axis, piece.shape)>>]
             IN  IF Valid(newPiece, board)
                 THEN SetPiece(newPiece, Idle)
                 ELSE Ignored

-----------------------------------------------------------------------------
(* hardDrop *)

\* Variant: `if` for `while`, a drop of one row at most.
DropYOnce(p, bd, dropY) ==
    IF isValidMove([p EXCEPT !.position.y = dropY + 1], bd) THEN dropY + 1 ELSE dropY

\* let dropY = y; while (isValidMove({...piece, y: dropY + 1}, board)) dropY++
RECURSIVE DropY(_, _, _)
DropY(p, bd, dropY) ==
    IF isValidMove([p EXCEPT !.position.y = dropY + 1], bd)
    THEN DropY(p, bd, dropY + 1)
    ELSE dropY

getDropPosition(p, bd) == [x |-> p.position.x, y |-> DropY(p, bd, p.position.y)]

\* canvas build: the dropped piece is merged by hardDrop itself
HardDropCanvas ==
    /\ Running
    /\ build = "canvas"
    /\ IF piece = Null
       THEN Ignored
       ELSE LET dropPosition == getDropPosition(piece, board)
                newPiece == [piece EXCEPT !.position = dropPosition]
            IN  LockAndAdvance("hardDrop", newPiece, newPiece,
                               dropPosition.y - piece.position.y)

\* flat3d build: setPiece(dropped piece), then moveDown() -- the moveDown of the
\* same render, which still sees the piece where it was before the drop, and
\* whose setPiece is the later one.
HardDropFlat ==
    /\ Running
    /\ build = "flat3d"
    /\ IF piece = Null
       THEN Ignored
       ELSE LET newY == DropY(piece, board, piece.position.y)
                dropped == [piece EXCEPT !.position.y = newY]
            IN  IF Valid(MovedBy(piece, 0, 1), board)
                THEN SetPiece(MovedBy(piece, 0, 1),
                              [Quiet("hardDrop") EXCEPT !.dist = newY - piece.position.y])
                ELSE LockAndAdvance("hardDrop", dropped, piece, 0)

-----------------------------------------------------------------------------
(* storePiece, canvas build *)

\* Variant: the shape's width is not taken into account.
SpawnXOfBoard(shape) == extent.width \div 2

SpawnX(shape) == (extent.width \div 2) - (Len(shape[1]) \div 2)

\* restoredPiece: the held piece at the spawn position of its shape
Restored(held) == [held EXCEPT !.position = [x |-> SpawnX(held.shape), y |-> 0]]

\* Variant: the first store is refused.
MayStoreHeld == canStore /\ piece # Null /\ storedPiece # Null

\* Variant: canStore is not consulted.
MayStoreAlways == piece # Null

\* if (!canStore || !piece) return;
MayStore == canStore /\ piece # Null

StorePiece ==
    /\ Running
    /\ build = "canvas"
    /\ IF ~MayStore
       THEN Refused("storePiece")
       ELSE /\ IF storedPiece # Null
               THEN LET restoredPiece == Restored(storedPiece)
                    IN  IF isValidMove(restoredPiece, board)
                        THEN /\ storedPiece' = piece
                             /\ piece' = restoredPiece
                             /\ UNCHANGED nextPiece
                        ELSE UNCHANGED <<storedPiece, piece, nextPiece>>
               ELSE /\ storedPiece' = piece
                    /\ IF nextPiece # Null
                       THEN /\ piece' = nextPiece
                            /\ \E i \in 1..NumShapes : nextPiece' = New(i)
                       ELSE /\ \E i \in 1..NumShapes : piece' = New(i)
                            /\ UNCHANGED nextPiece
            /\ canStore' = FALSE
            /\ last' = [Quiet("storePiece") EXCEPT
                            !.swap = (storedPiece # Null),
                            !.installed = (storedPiece = Null
                                           \/ isValidMove(Restored(storedPiece), board))]
            /\ UNCHANGED <<build, extent, board, score, level, speed, gameOver,
                           highScore, locksLeft>>

\* A key pressed after game over: handleKeyPress returns at its first line.
\* (No tick arrives after game over: the gameLoop effect sets no interval.)
KeyPressGameOver ==
    /\ gameOver
    /\ last' = Quiet("keyPress")
    /\ UNCHANGED <<build, extent, board, piece, nextPiece, storedPiece, canStore,
                   score, level, speed, gameOver, highScore, locksLeft>>

-----------------------------------------------------------------------------

Next ==
    \/ Spawn
    \/ MoveDown
    \/ MoveSideways
    \/ MoveDepth
    \/ RotatePlain
    \/ RotateKick
    \/ RotateAxis
    \/ HardDropCanvas
    \/ HardDropFlat
    \/ StorePiece
    \/ KeyPressGameOver

Spec == Init /\ [][Next]_vars

\* The gravity interval keeps ticking (setInterval(moveDown, speed)) and React
\* runs the spawn effect after every render that leaves no piece.
SpecFair == Spec /\ WF_vars(MoveDown) /\ WF_vars(Spawn)

-----------------------------------------------------------------------------
(* Sessions that have been played for a while.  A session is played in by    *)
(* locking the I piece flat on the bottom row again and again: every such     *)
(* lock completes the row, so the board is empty again after it.  A script is *)
(* a sequence of runs [locks, bonus]: that many such locks, each after a hard *)
(* drop of `bonus` rows (0: the piece was soft-dropped all the way).          *)

\* One such lock, on the session st = [score, level, speed].
PlayedLock(st, bonus) ==
    LET newScore == st.score + ScoreDelta(1, bonus)
    IN  [score |-> newScore,
         level |-> IF LevelUp(newScore, st.level) THEN st.level + 1 ELSE st.level,
         speed |-> IF LevelUp(newScore, st.level) THEN NextSpeed(st.speed) ELSE st.speed]

\* n such locks: the first half of them, then the rest.
RECURSIVE PlayedRun(_, _, _)
PlayedRun(st, n, bonus) ==
    IF n = 0
    THEN st
    ELSE IF n = 1
         THEN PlayedLock(st, bonus)
         ELSE CHOOSE r \in {PlayedRun(half, n - (n \div 2), bonus) :
                               half \in {PlayedRun(st, n \div 2, bonus)}} : TRUE

RECURSIVE Played(_, _)
Played(st, script) ==
    IF script = <<>>
    THEN st
    ELSE Played(PlayedRun(st, Head(script).locks, Head(script).bonus), Tail(script))

\* A fresh session; one just below the second level; one at the speed floor,
\* a lock below the next level; and (canvas) one where only the bonus of a
\* hard drop reaches the second level.
Scripts(b) ==
    {<<>>, <<[locks |-> 9, bonus |-> 0]>>}
        \cup (IF b = "volumetric"
              THEN {<<[locks |-> 181, bonus |-> 0]>>}
              ELSE {<<[locks |-> 81, bonus |-> 0]>>})
        \cup (IF b = "canvas"
              THEN {<<[locks |-> 7, bonus |-> 1], [locks |-> 1, bonus |-> 2]>>}
              ELSE {})

Sessions ==
    UNION {{[build |-> b, st |-> Played(Fresh(b), script)] : script \in Scripts(b)} :
              b \in Builds}

\* The I piece where the scripts lock it.
BottomI == [New(1) EXCEPT !.position.y = extent.height - 1]

InitLevels ==
    \E s \in Sessions :
        /\ InitSession(s.build, ScaledWidth, ScaledHeight, ScaledDepth, LevelLocks, s.st)
        /\ Clear(Merge(BottomI, board)) = [newBoard |-> board, linesCleared |-> 1]

SpecLevels == InitLevels /\ [][Next]_vars

\* Fresh sessions and played-in ones together.
InitAll == Init \/ InitLevels

SpecAll == InitAll /\ [][Next]_vars

-----------------------------------------------------------------------------
(* The soft-drop sequence: moveDown again and again, until one of them locks *)

\* The piece after the moveDown calls that can descend (each is setPiece(newPiece)).
RECURSIVE SoftDropped(_, _)
SoftDropped(p, bd) ==
    IF Valid(MovedBy(p, 0, 1), bd) THEN SoftDropped(MovedBy(p, 0, 1), bd) ELSE p

\* What the moveDown after them, the one that cannot descend, does with the
\* session: its merge throws, or it sets the board, the level and, by the
\* validity of nextPiece on the cleared board, the promotion or game over.
SoftDropLock(p, bd) ==
    LET q == SoftDropped(p, bd)
        res == Clear(Merge(q, bd))
        newScore == score + ScoreDelta(res.linesCleared, 0)
    IN  [rest |-> q,
         threw |-> Throws(q),
         board |-> res.newBoard,
         lines |-> res.linesCleared,
         score |-> newScore,
         level |-> IF LevelUp(newScore, level) THEN level + 1 ELSE level,
         blocked |-> nextPiece # Null /\ ~Valid(nextPiece, res.newBoard)]

TypeOK ==
    /\ build \in Builds
    /\ score \in Nat
    /\ level \in Nat \ {0}
    /\ gameOver \in BOOLEAN
    /\ canStore \in BOOLEAN

-----------------------------------------------------------------------------
(* isValidMove and clearLines applied on their own, to every board of a small *)
(* size and to pieces on, across and off its edges.                           *)

\* Every board of the given size with cells 0 (empty) and 1 (taken).
PurePlanes(w, h) ==
    {Tup([y \in 1..h |-> Tup(f[y], w)], h) : f \in [1..h -> [1..w -> {0, 1}]]}

PureBoards(b, w, h, d) ==
    IF b = "volumetric"
    THEN {Tup(f, d) : f \in [1..d -> PurePlanes(w, h)]}
    ELSE PurePlanes(w, h)

\* O, the upright I, the upright S and the T (the last two have empty sub-cells).
PureGrids == {GRIDS[2], RotateGrid(GRIDS[1]), RotateGrid(GRIDS[7]), GRIDS[3]}

\* Pieces from PureReach columns (layers) left of the board to PureReach past it,
\* and from above the board (the tallest grid has 4 rows) to below it.
PurePieces(b, w, h, d) ==
    IF b = "volumetric"
    THEN {[shape |-> <<g>>, color |-> HEX[1], position |-> [x |-> x, y |-> y, z |-> z]] :
            g \in PureGrids, x \in (0 - PureReach)..w, y \in (h - 5)..h,
            z \in (0 - PureReach)..d}
    ELSE {[shape |-> g, color |-> (IF b = "dom" THEN 1 ELSE HEX[1]),
           position |-> [x |-> x, y |-> y]] :
            g \in PureGrids, x \in (0 - PureReach)..w, y \in (h - 5)..h}

InitPure ==
    \E b \in Builds :
        LET w == PureWidth
            h == IF b = "volumetric" THEN PureVolHeight ELSE PureHeight
            d == PureDepth
        IN  /\ build = b
            /\ extent = [width |-> w, height |-> h, depth |-> d]
            /\ board \in PureBoards(b, w, h, d)
            /\ piece \in {Null} \cup PurePieces(b, w, h, d)
            /\ nextPiece = Null
            /\ storedPiece = Null
            /\ canStore = TRUE
            /\ score = 0
            /\ level = 1
            /\ speed = (IF b = "volumetric" THEN INITIAL_SPEED_VOLUMETRIC ELSE INITIAL_SPEED)
            /\ gameOver = FALSE
            /\ highScore = 0
            /\ locksLeft = PureApplications
            /\ last = Idle

\* isValidMove(piece, board), its result recorded.
ApplyIsValidMove ==
    /\ piece # Null
    /\ last' = [Quiet("isValidMove") EXCEPT !.valid = Valid(piece, board)]
    /\ UNCHANGED <<build, extent, board, piece, nextPiece, storedPiece, canStore, score,
                   level, speed, gameOver, highScore, locksLeft>>

\* clearLines(board): the board becomes newBoard, linesCleared is recorded.
ApplyClearLines ==
    /\ piece = Null
    /\ locksLeft > 0
    /\ LET res == Clear(board)
       IN  /\ board' = res.newBoard
           /\ last' = [Quiet("clearLines") EXCEPT !.lines = res.linesCleared]
    /\ locksLeft' = locksLeft - 1
    /\ UNCHANGED <<build, extent, piece, nextPiece, storedPiece, canStore, score,
                   level, speed, gameOver, highScore>>

NextPure ==
    \/ ApplyIsValidMove
    \/ ApplyClearLines

SpecPure == InitPure /\ [][NextPure]_vars

-----------------------------------------------------------------------------
(* rotate of the canvas build applied to every board of a small size and to   *)
(* pieces on, across and off its edges, whether or not they overlap the board *)
(* (storePiece installs pieces without isValidMove, so such pieces occur).    *)

InitRotate(b) ==
    /\ build = b
    /\ extent = [width |-> KickWidth, height |-> KickHeight, depth |-> 0]
    /\ board \in PureBoards(b, KickWidth, KickHeight, 0)
    /\ piece \in PurePieces(b, KickWidth, KickHeight, 0)
    /\ nextPiece = createNewPiece(b, 1)
    /\ storedPiece = Null
    /\ canStore = TRUE
    /\ score = 0
    /\ level = 1
    /\ speed = INITIAL_SPEED
    /\ gameOver = FALSE
    /\ highScore = 0
    /\ locksLeft = 1
    /\ last = Quiet("spawn")

InitKick == InitRotate("canvas")

NextKick == RotateKick

SpecKick == InitKick /\ [][NextKick]_vars

(* rotate of each 2D build, applied in the same way *)

InitTurn == \E b \in Builds \ {"volumetric"} : InitRotate(b)

NextTurn ==
    \/ RotatePlain
    \/ RotateKick

SpecTurn == InitTurn /\ [][NextTurn]_vars

-----------------------------------------------------------------------------
(* The 2D builds on the board of the source, 10 wide and 20 high, with        *)
(* soft-drops only.                                                           *)

InitDrop ==
    \E b \in Builds \ {"volumetric"} :
        InitSession(b, BOARD_WIDTH, BOARD_HEIGHT, BOARD_DEPTH, MaxLocks, Fresh(b))

NextDrop ==
    \/ Spawn
    \/ MoveDown

SpecDrop == InitDrop /\ [][NextDrop]_vars

-----------------------------------------------------------------------------
(* createNewPiece applied on its own, with the dimensions of the source and   *)
(* every template of SHAPES.                                                  *)

InitCreate ==
    \E b \in Builds :
        InitSession(b, BOARD_WIDTH, BOARD_HEIGHT, BOARD_DEPTH, MaxLocks, Fresh(b))

\* The two createNewPiece calls of the spawn effect, over the whole catalog.
\* (Every template passes isValidMove on the empty board.)
ApplyCreateNewPiece ==
    /\ piece = Null
    /\ \E i, j \in 1..Len(SHAPES) :
          /\ piece' = New(i)
          /\ nextPiece' = New(j)
    /\ last' = Quiet("createNewPiece")
    /\ UNCHANGED <<build, extent, board, storedPiece, canStore, score, level, speed,
                   gameOver, highScore, locksLeft>>

NextCreate == ApplyCreateNewPiece

SpecCreate == InitCreate /\ [][NextCreate]_vars

-----------------------------------------------------------------------------
(* The canvas build started with a high score found in localStorage: none,    *)
(* one that the run exceeds, or one that it does not reach.                   *)

InitHigh ==
    /\ build = "canvas"
    /\ extent = [width |-> ScaledWidth, height |-> ScaledHeight, depth |-> ScaledDepth]
    /\ board = Tup([y \in 1..ScaledHeight |->
                       Tup([x \in 1..ScaledWidth |-> 0], ScaledWidth)], ScaledHeight)
    /\ piece = Null
    /\ nextPiece = Null
    /\ storedPiece = Null
    /\ canStore = TRUE
    /\ score = 0
    /\ level = 1
    /\ speed = INITIAL_SPEED
    /\ gameOver = FALSE
    /\ highScore \in {0, StoredHigh, LEVEL_THRESHOLD}
    /\ locksLeft = MaxLocks
    /\ last = Quiet("init")

\* The handlers and effects of the canvas build.
NextCanvas ==
    \/ Spawn
    \/ MoveDown
    \/ MoveSideways
    \/ RotateKick
    \/ HardDropCanvas
    \/ StorePiece
    \/ KeyPressGameOver

SpecHigh == InitHigh /\ [][NextCanvas]_vars

-----------------------------------------------------------------------------
(* The canvas and flat3d builds late in a game on the 10x20 board, with a     *)
(* stack built from O and I pieces only: nine O on columns 0-1 (18 rows),     *)
(* four upright I on each of columns 2 to 5 with one flat I across them       *)
(* (17 rows), columns 6 to 9 empty.  Each of these 26 pieces can be brought   *)
(* over its columns along rows 0 to 3 and dropped; no row is ever full.       *)

TowerHeights == <<18, 18, 17, 17, 17, 17, 0, 0, 0, 0>>

TowerBoard ==
    Tup([y \in 1..BOARD_HEIGHT |->
            Tup([x \in 1..BOARD_WIDTH |->
                    IF y <= BOARD_HEIGHT - TowerHeights[x] THEN 0
                    ELSE IF x <= 2 THEN 2 ELSE 1], BOARD_WIDTH)], BOARD_HEIGHT)

\* 26 locks by soft drop, none with a cleared line: 10 points each.
TowerScore == 26 * 10

InitTower ==
    \E b \in {"canvas", "flat3d"} :
        /\ build = b
        /\ extent = [width |-> BOARD_WIDTH, height |-> BOARD_HEIGHT, depth |-> BOARD_DEPTH]
        /\ board = TowerBoard
        /\ \E i, j \in 1..NumShapes : piece = New(i) /\ nextPiece = New(j)
        /\ storedPiece = Null
        /\ canStore = TRUE
        /\ score = TowerScore
        /\ level = 1
        /\ speed = INITIAL_SPEED
        /\ gameOver = FALSE
        /\ highScore = (IF b = "canvas" THEN TowerScore ELSE 0)
        /\ locksLeft = 1
        /\ last = Quiet("init")

\* The moves, rotations and hard drops of the two builds.
NextTower ==
    \/ MoveSideways
    \/ RotateKick
    \/ RotatePlain
    \/ HardDropCanvas
    \/ HardDropFlat

SpecTower == InitTower /\ [][NextTower]_vars

-----------------------------------------------------------------------------
(* A session one lock before four rows are cleared at once: on the scaled     *)
(* board, four I locked flat on the bottom row (each clears it: 110 points    *)
(* each), then three I turned upright at the spawn column, moved right and    *)
(* soft-dropped onto columns 1, 2 and 3 (10 points each).  Column 0 is the    *)
(* well; in the volumetric build the stack is in the layer where pieces spawn.*)

WellPlane ==
    Tup([y \in 1..ScaledHeight |->
            Tup([x \in 1..ScaledWidth |-> IF y >= 2 /\ x >= 2 THEN 1 ELSE 0], ScaledWidth)],
        ScaledHeight)

WellBoard(b) ==
    IF b = "volumetric"
    THEN Tup([z \in 1..ScaledDepth |->
                 IF z = (ScaledDepth \div 2) + 1
                 THEN WellPlane
                 ELSE Tup([y \in 1..ScaledHeight |-> Tup([x \in 1..ScaledWidth |-> 0], ScaledWidth)],
                          ScaledHeight)], ScaledDepth)
    ELSE WellPlane

\* A lock that clears no line, after a soft drop, on the session st.
PlainLock(st) ==
    LET newScore == st.score + ScoreDelta(0, 0)
    IN  [score |-> newScore,
         level |-> IF LevelUp(newScore, st.level) THEN st.level + 1 ELSE st.level,
         speed |-> IF LevelUp(newScore, st.level) THEN NextSpeed(st.speed) ELSE st.speed]

\* The same with nine I on the bottom row: the first upright I reaches 1000.
WellSessions(b) ==
    {PlainLock(PlainLock(PlainLock(PlayedRun(Fresh(b), n, 0)))) : n \in {4, 9}}

InitWell ==
    \E b \in Builds :
        /\ build = b
        /\ extent = [width |-> ScaledWidth, height |-> ScaledHeight, depth |-> ScaledDepth]
        /\ board = WellBoard(b)
        /\ \E i, j \in 1..NumShapes : piece = New(i) /\ nextPiece = New(j)
        /\ Valid(piece, board)
        /\ storedPiece = Null
        /\ canStore = TRUE
        /\ \E st \in WellSessions(b) :
            /\ score = st.score
            /\ level = st.level
            /\ speed = st.speed
            /\ highScore = (IF b = "canvas" THEN st.score ELSE 0)
        /\ gameOver = FALSE
        /\ locksLeft = 1
        /\ last = Quiet("init")

\* Every handler; the piece is there, so the spawn effect has nothing to do.
NextWell ==
    \/ MoveDown
    \/ MoveSideways
    \/ MoveDepth
    \/ RotatePlain
    \/ RotateKick
    \/ RotateAxis
    \/ HardDropCanvas
    \/ HardDropFlat
    \/ StorePiece
    \/ KeyPressGameOver

SpecWell == InitWell /\ [][NextWell]_vars

-----------------------------------------------------------------------------
(* Runs made of gravity ticks only: the spawn effect and the interval's       *)
(* moveDown, no key pressed.  The board is wider than the widest piece, as    *)
(* the source's is, so a piece that falls from its spawn column completes no  *)
(* row; TickLocks locks are more than fit under the spawn cells.              *)

InitTicks ==
    \E b \in Builds :
        InitSession(b, TickWidth, TickHeight, ScaledDepth, TickLocks, Fresh(b))

NextTicks ==
    \/ Spawn
    \/ MoveDown

SpecTicks == InitTicks /\ [][NextTicks]_vars /\ WF_vars(MoveDown) /\ WF_vars(Spawn)

-----------------------------------------------------------------------------
(* Properties *)

\* C1: in every build, a lock whose candidate for promotion fails isValidMove
\* on the cleared board sets gameOver and does not install the candidate.
\* (Refuted: the dom build's moveDown promotes nextPiece without the check.)
C1_BlockedPromotionEndsGame ==
    (last.locked /\ last.blocked) => (gameOver /\ ~last.installed)

\* C2: in every build, a lock writes only to board cells that were empty.
\* (Refuted: a piece installed over occupied cells is later locked onto them.)
C2_LockWritesEmptyCells ==
    last.locked => ~last.overlap

\* C3: canvas build: no lock writes to a row or column off the board, also
\* after a rotation accepted through an upward kick.
\* (Refuted: a piece kicked to row -1 that cannot descend is merged at row -1.)
C3_LockWritesOnBoard ==
    build = "canvas" => ~last.threw

\* C4: canvas and flat3d builds: one hardDrop moves the piece to the lowest
\* row it can reach and locks it there in the same intent.
\* (Refuted: the flat3d build's hardDrop of a piece that can descend moves it
\* one row and locks nothing.)
C4_HardDropLocks ==
    (last.op = "hardDrop" /\ ~last.threw) => last.locked

\* What one hardDrop and the soft-drop sequence `soft` agree on: where the
\* piece comes to rest (getDropPosition's y'), whether the merge throws, the
\* board, the cleared-line count, game over and the promoted piece.
HardDropAgrees(soft) ==
    /\ [piece EXCEPT !.position = getDropPosition(piece, board)] = soft.rest
    /\ ~isValidMove([piece EXCEPT !.position.y = getDropPosition(piece, board).y + 1], board)
    /\ last'.threw = soft.threw
    /\ ~soft.threw =>
        /\ last'.locked
        /\ board' = soft.board
        /\ last'.lines = soft.lines
        /\ gameOver' = soft.blocked
        /\ piece' = (IF soft.blocked THEN soft.rest ELSE nextPiece)
        /\ soft.blocked => nextPiece' = nextPiece

C6_HardDropScore ==
    [][(last'.op = "hardDrop" /\ ~last'.threw) =>
        score' = score + last'.lines * last'.lines * 100 + 10 + last'.dist]_vars

\* C7: in every build, a moveDown that cannot descend and whose clearLines
\* returns k adds exactly k * k * 100 + 10 to the score.
C7_SoftDropLockScore ==
    [][(last'.op = "moveDown" /\ last'.locked) =>
        LET k == Clear(Merge(piece, board)).linesCleared
        IN  /\ last'.lines = k
            /\ score' = score + k * k * 100 + 10]_vars

\* A soft-drop lock that cleared two lines at once.
C7_Witness ==
    /\ last.op = "moveDown"
    /\ last.locked
    /\ last.lines = 2
    /\ score >= 410

\* C8: in every build, a lock whose new score is >= level * 1000 raises the
\* level by exactly one, a lock whose new score is below leaves it, and no
\* other step changes it (so it never decreases).
C8_LevelRule ==
    [][level' = (IF last'.locked /\ score' >= level * LEVEL_THRESHOLD
                 THEN level + 1
                 ELSE level)]_vars

\* A lock that raised the level with a new score of exactly level * 1000.
C8_Witness ==
    /\ last.locked
    /\ last.levelUp
    /\ score = (level - 1) * LEVEL_THRESHOLD

\* C9 as stated: in every build, each level increase decreases the speed by
\* exactly 50, and the speed is never below 100.
C9_LevelUpLowersSpeed ==
    /\ [](speed >= MIN_SPEED)
    /\ [][level' > level => speed' = speed - SPEED_INCREMENT]_vars

\* C9, amended: each level increase decreases the speed by 50 or, where that
\* would pass the floor, sets it to the floor 100 (at the floor the speed stays
\* as it is); no other step changes the speed, which is never below 100.
C9_LevelUpLowersSpeedToFloor ==
    /\ [](speed >= MIN_SPEED)
    /\ [][speed' = (IF level' > level
                    THEN (IF speed - SPEED_INCREMENT >= MIN_SPEED
                          THEN speed - SPEED_INCREMENT
                          ELSE MIN_SPEED)
                    ELSE speed)]_vars

\* A level increase at the floor: the session reached level 10 (the 2D builds
\* are at the floor from level 9 on) and the speed is still 100.
C9_Witness ==
    /\ build # "volumetric"
    /\ last.levelUp
    /\ level = 10
    /\ speed = MIN_SPEED

\* C10: canvas build: a store issued while canStore is false (a store has been
\* made since the last lock) changes none of piece, storedPiece, nextPiece and
\* canStore; a lock that promotes the next piece sets canStore.
C10_SecondStoreIsNoOp ==
    [][build = "canvas" =>
        /\ (StorePiece /\ ~canStore) =>
                UNCHANGED <<piece, storedPiece, nextPiece, canStore, board, score>>
        /\ (last'.locked /\ last'.installed) => canStore']_vars

\* After a store, a second one was issued and refused.
C10_Witness ==
    /\ build = "canvas"
    /\ storedPiece # Null
    /\ ~canStore
    /\ last = Quiet("storePiece")

\* C11 as stated: canvas build: a store made while a piece is held and canStore
\* is true swaps the two: the held piece becomes active at the spawn position
\* of its shape, the active piece becomes held, and canStore becomes false.
C11_StoreSwaps ==
    [][(build = "canvas" /\ StorePiece /\ canStore /\ piece # Null /\ storedPiece # Null) =>
        /\ piece' = [storedPiece EXCEPT
                        !.position = [x |-> (extent.width \div 2)
                                            - (Len(storedPiece.shape[1]) \div 2),
                                      y |-> 0]]
        /\ storedPiece' = piece
        /\ canStore' = FALSE]_vars

\* C11, amended: the swap is made only if the held piece is valid on the board
\* at the spawn position of its shape; otherwise the active and the held piece
\* stay as they are.  In both cases canStore becomes false, and the next piece
\* and the board are untouched.
C11_StoreSwapsIfValid ==
    [][(build = "canvas" /\ StorePiece /\ canStore /\ piece # Null /\ storedPiece # Null) =>
        LET atSpawn == [storedPiece EXCEPT
                           !.position = [x |-> (extent.width \div 2)
                                               - (Len(storedPiece.shape[1]) \div 2),
                                         y |-> 0]]
        IN  /\ IF isValidMove(atSpawn, board)
               THEN piece' = atSpawn /\ storedPiece' = piece
               ELSE piece' = piece /\ storedPiece' = storedPiece
            /\ canStore' = FALSE
            /\ UNCHANGED <<nextPiece, board, score, gameOver>>]_vars

\* A swap was made, and the piece now active is not where it was stored from.
C11_Witness ==
    /\ build = "canvas"
    /\ last.op = "storePiece"
    /\ last.swap
    /\ last.installed
    /\ ~canStore
    /\ Len(piece.shape) = 4
    /\ piece.position = [x |-> 2, y |-> 0]

\* C12: canvas build: a store made while no piece is held and canStore is true
\* makes the active piece the held one and the next piece the active one, and
\* draws a new next piece.
C12_FirstStore ==
    [][(build = "canvas" /\ StorePiece /\ canStore /\ piece # Null /\ storedPiece = Null) =>
        /\ storedPiece' = piece
        /\ piece' = nextPiece
        /\ \E i \in 1..NumShapes : nextPiece' = createNewPiece("canvas", i)
        /\ canStore' = FALSE]_vars

\* A first store: the active piece, moved from its spawn position, is now held.
C12_Witness ==
    /\ build = "canvas"
    /\ last.op = "storePiece"
    /\ ~last.swap
    /\ last.installed
    /\ storedPiece # Null
    /\ storedPiece.position.y > 0
    /\ piece # Null

\* C13: every build: once gameOver is true it stays true, and no later key press
\* or tick changes the board, the active, next or held piece, the score or
\* the level.
C13_GameOverIsFinal ==
    [][gameOver =>
        /\ gameOver'
        /\ UNCHANGED <<board, piece, nextPiece, storedPiece, score, level>>]_vars

\* A key was pressed after game over, with a piece still on the board.
C13_Witness ==
    /\ gameOver
    /\ last.op = "keyPress"
    /\ piece # Null

\* C14: when a lock sequence finds the piece to be promoted blocked at its spawn
\* cells, it sets gameOver and changes nothing else: no piece is installed (the
\* active slot keeps the piece just locked, where it was locked), no next piece
\* is drawn, the held piece stays and canStore is not reset.  The dom build
\* makes no such check and is not concerned.
C14_BlockedLockOnlyEndsGame ==
    [][(build # "dom" /\ last'.locked /\ last'.blocked) =>
        /\ gameOver'
        /\ piece'.shape = piece.shape
        /\ piece'.color = piece.color
        /\ piece'.position.x = piece.position.x
        /\ piece'.position.y = piece.position.y + last'.dist
        /\ last'.op = "moveDown" => piece' = piece
        /\ nextPiece' = nextPiece
        /\ storedPiece' = storedPiece
        /\ canStore' = canStore]_vars

\* A hard drop whose lock found the next piece blocked, with a piece held and
\* the store used up.
C14_Witness ==
    /\ build = "canvas"
    /\ gameOver
    /\ last.op = "hardDrop"
    /\ last.locked
    /\ last.blocked
    /\ ~last.installed
    /\ last.dist > 0
    /\ storedPiece # Null
    /\ ~canStore

\* The occupied sub-cells of the active piece as <<layer, row, col>> (layer 0
\* in the 2D builds).
PieceCells ==
    IF build = "volumetric"
    THEN Cells3D(piece)
    ELSE {<<0, c[1], c[2]>> : c \in Cells(piece)}

\* c lies left or right of the board, below it, or before or behind it.
OffBoard(c) ==
    \/ c[3] < 0
    \/ c[3] >= extent.width
    \/ c[2] >= extent.height
    \/ (build = "volumetric" /\ (c[1] < 0 \/ c[1] >= extent.depth))

\* c is not above the board and the board cell it maps to is taken.
OnTakenCell(c) ==
    /\ ~OffBoard(c)
    /\ c[2] >= 0
    /\ (IF build = "volumetric"
        THEN board[c[1] + 1][c[2] + 1][c[3] + 1]
        ELSE board[c[2] + 1][c[3] + 1]) # 0

\* C15: in every build, for every board and piece, isValidMove returns false if
\* some occupied sub-cell maps to a column outside [0, width), to a row at or
\* beyond height, or (volumetric build) to a layer outside [0, depth).
C15_OffBoardIsInvalid ==
    (last.op = "isValidMove" /\ \E c \in PieceCells : OffBoard(c)) => ~last.valid

\* A piece of the volumetric build that is off the board in depth only, on an
\* empty board, was found invalid.
C15_Witness ==
    /\ build = "volumetric"
    /\ last.op = "isValidMove"
    /\ ~last.valid
    /\ \A c \in PieceCells :
          /\ c[3] >= 0 /\ c[3] < extent.width
          /\ c[2] >= 0 /\ c[2] < extent.height
    /\ \E c \in PieceCells : c[1] >= extent.depth
    /\ \A z \in 1..extent.depth, y \in 1..extent.height, x \in 1..extent.width :
          board[z][y][x] = 0

\* C16: in every build, isValidMove does not look at the board for a sub-cell
\* above the board (row < 0) but still rejects it when its column or layer is
\* out of bounds; a sub-cell with row >= 0 is rejected iff it is out of bounds
\* or the board cell it maps to is not 0; isValidMove is true exactly when no
\* sub-cell is rejected.
C16_ValidIffNoCellRejected ==
    last.op = "isValidMove" =>
        (last.valid <=> \A c \in PieceCells : ~OffBoard(c) /\ ~OnTakenCell(c))

\* A piece reaching above the board, over a board that is not empty, was found
\* valid.
C16_Witness ==
    /\ last.op = "isValidMove"
    /\ last.valid
    /\ \E c \in PieceCells : c[2] < 0
    /\ \E c \in PieceCells : c[2] >= 0
    /\ build = "canvas"
    /\ \E y \in 1..extent.height, x \in 1..extent.width : board[y][x] # 0

\* The planes of a board: its depth layers, or the board itself in the 2D builds.
Planes(bd) == IF build = "volumetric" THEN bd ELSE <<bd>>

\* The rows of a plane (counted from the top, from 1) without an empty cell.
FullRows(plane) ==
    {y \in 1..Len(plane) : \A x \in 1..Len(plane[y]) : plane[y][x] # 0}

\* The i-th row of a plane, from the top, among those that are not full.
NthKept(plane, i) ==
    CHOOSE y \in (1..Len(plane)) \ FullRows(plane) :
        Cardinality({z \in 1..y : z \notin FullRows(plane)}) = i

\* after has the board's height, as many empty rows on top as before has full
\* rows, and below them the other rows of before in their order.
PlaneCleared(before, after) ==
    LET k == Cardinality(FullRows(before))
    IN  /\ Len(after) = extent.height
        /\ \A y \in 1..k :
              /\ Len(after[y]) = extent.width
              /\ \A x \in 1..extent.width : after[y][x] = 0
        /\ \A i \in 1..(extent.height - k) : after[k + i] = before[NthKept(before, i)]

\* C17: clearLines on a board with k full rows returns k and a board of
\* BOARD_HEIGHT rows whose top k rows are empty and whose other rows are the
\* rows that were not full, in their order; in the volumetric build this holds
\* layer by layer and the count is the total over the layers.
C17_ClearLinesResult ==
    [][last'.op = "clearLines" =>
        /\ Len(Planes(board')) = Len(Planes(board))
        /\ \A z \in 1..Len(Planes(board)) :
              PlaneCleared(Planes(board)[z], Planes(board')[z])
        /\ last'.lines =
              Cardinality({c \in (1..Len(Planes(board))) \X (1..extent.height) :
                              c[2] \in FullRows(Planes(board)[c[1]])})]_vars

\* One application that removed one row and left two different rows, both
\* partly taken, under an empty top row.
C17_Witness ==
    /\ build = "canvas"
    /\ last.op = "clearLines"
    /\ locksLeft = PureApplications - 1
    /\ last.lines = 1
    /\ \A x \in 1..extent.width : board[1][x] = 0
    /\ board[2] # board[3]
    /\ \E x \in 1..extent.width : board[2][x] # 0
    /\ \E x \in 1..extent.width : board[3][x] # 0

\* C18: clearLines on a board without a full row returns linesCleared = 0 and a
\* board equal to its argument; hence a second application, to the result of a
\* first, returns that result again with a count of 0.
C18_ClearLinesIdempotent ==
    [][last'.op = "clearLines" =>
        ((\/ \A z \in 1..Len(Planes(board)) : FullRows(Planes(board)[z]) = {}
          \/ last.op = "clearLines")
         => (board' = board /\ last'.lines = 0))]_vars

\* A second application in a row, on a board that is not empty.
C18_Witness ==
    /\ build = "flat3d"
    /\ last.op = "clearLines"
    /\ locksLeft = PureApplications - 2
    /\ last.lines = 0
    /\ \A x \in 1..extent.width : board[1][x] = 0
    /\ \E x \in 1..extent.width : board[extent.height][x] # 0

\* The active piece turned as rotate turns it (row r of the new grid is column r
\* of the old one read from the bottom up), then moved by (dx, dy).
TurnedAt(dx, dy) ==
    LET g == piece.shape
        turned == [r \in 1..Len(g[1]) |-> [c \in 1..Len(g) |-> g[Len(g) + 1 - c][r]]]
    IN  [shape |-> turned,
         color |-> piece.color,
         position |-> [x |-> piece.position.x + dx, y |-> piece.position.y + dy]]

\* C19: canvas build: when the rotated piece is not valid where it stands,
\* rotate tries it moved by (+1,0), (-1,0), (0,-1), (+1,-1), (-1,-1), in that
\* order, and installs it at the first of these that isValidMove accepts; if
\* none is accepted the active piece keeps its shape and position.
C19_KickOrder ==
    [][(build = "canvas" /\ piece # Null /\ RotateKick
        /\ ~isValidMove(TurnedAt(0, 0), board)) =>
        LET tries == << TurnedAt(1, 0), TurnedAt(-1, 0), TurnedAt(0, -1),
                        TurnedAt(1, -1), TurnedAt(-1, -1) >>
            ok == {i \in 1..5 : isValidMove(tries[i], board)}
        IN  /\ ok # {} =>
                  \E i \in ok : (\A j \in ok : i <= j) /\ piece' = tries[i]
            /\ ok = {} => piece' = piece]_vars

\* A rotation accepted at the last offset, (-1,-1), for a piece whose grid is
\* not square.
C19_Witness ==
    /\ build = "canvas"
    /\ last.op = "rotate"
    /\ last.kick = 5
    /\ Len(piece.shape) # Len(piece.shape[1])

\* The board is the empty 10x20 board and the active piece is the I as spawned,
\* n - 1 rows below row 0: its next soft-drop is the n-th since its spawn.
NthSoftDropOfI(n) ==
    /\ build # "volumetric"
    /\ extent.width = 10
    /\ extent.height = 20
    /\ \A y \in 1..20, x \in 1..10 : board[y][x] = 0
    /\ piece # Null
    /\ piece.shape = << <<1, 1, 1, 1>> >>
    /\ piece.position.x = 3
    /\ piece.position.y = n - 1
    /\ MoveDown

\* C20 as stated: on an empty 10x20 board with the I spawned at row 0, three
\* soft-drops move it to row 3 with its shape unchanged, and the piece locks on
\* the 17th soft-drop counted from spawn.
C20_LocksOn17th ==
    [][/\ NthSoftDropOfI(3) => (piece'.position.y = 3 /\ piece'.shape = piece.shape)
       /\ \A n \in 1..16 : NthSoftDropOfI(n) => ~last'.locked
       /\ NthSoftDropOfI(17) => last'.locked]_vars

\* C20, amended: the first 19 soft-drops each move the I one row down with its
\* shape unchanged (so three of them move it to row 3), and the piece locks on
\* the 20th soft-drop counted from spawn, in row 19.
C20_LocksOn20th ==
    [][/\ \A n \in 1..19 :
            NthSoftDropOfI(n) =>
                /\ ~last'.locked
                /\ piece' = [piece EXCEPT !.position.y = n]
                /\ board' = board
       /\ NthSoftDropOfI(20) =>
            /\ last'.locked
            /\ \A y \in 1..20, x \in 1..10 :
                  (board'[y][x] # 0) <=> (y = 20 /\ x \in 4..7)
       /\ \A n \in 21..40 : ~NthSoftDropOfI(n)]_vars

\* The I of the canvas build, locked by a soft-drop into the bottom row of the
\* 10x20 board.
C20_Witness ==
    /\ build = "canvas"
    /\ extent.height = 20
    /\ last.op = "moveDown"
    /\ last.locked
    /\ score = 10
    /\ \A x \in 4..7 : board[20][x] # 0
    /\ \A y \in 1..19, x \in 1..10 : board[y][x] = 0

\* The grid of a piece: its shape, or the one depth layer of it.
GridOf(p) == IF build = "volumetric" THEN p.shape[1] ELSE p.shape

\* C21: in every build, createNewPiece places each of the 7 templates, not
\* rotated, at column floor(BOARD_WIDTH/2) - floor(shape_width/2) and row 0; on
\* the 10-wide board the I therefore covers row 0, columns 3 to 6.
C21_SpawnPosition ==
    last.op = "createNewPiece" =>
        \A p \in {piece, nextPiece} :
            /\ \E i \in 1..7 : GridOf(p) = GRIDS[i]
            /\ p.position.x = (BOARD_WIDTH \div 2) - (Len(GridOf(p)[1]) \div 2)
            /\ p.position.y = 0
            /\ GridOf(p) = << <<1, 1, 1, 1>> >> =>
                  {<<c[2], c[3]>> : c \in IF build = "volumetric"
                                          THEN Cells3D(p)
                                          ELSE {<<0, d[1], d[2]>> : d \in Cells(p)}}
                      = {<<0, 3>>, <<0, 4>>, <<0, 5>>, <<0, 6>>}

\* The I was created as the active piece and the S, three columns wide, as the
\* next piece, on the 10-wide board of the flat3d build.
C21_Witness ==
    /\ build = "flat3d"
    /\ extent.width = 10
    /\ last.op = "createNewPiece"
    /\ piece.shape = << <<1, 1, 1, 1>> >>
    /\ piece.position = [x |-> 3, y |-> 0]
    /\ nextPiece.shape = << <<0, 1, 1>>, <<1, 1, 0>> >>
    /\ nextPiece.position = [x |-> 4, y |-> 0]

\* C22: volumetric build: createNewPiece centres the piece in depth as it does
\* across: z = floor(BOARD_DEPTH/2) - floor(shape_depth/2), shape_depth being
\* the number of depth layers of the shape (1 for every template).
\* (Refuted: the source halves the number of rows of layer 0 instead.)
C22_DepthCentred ==
    (build = "volumetric" /\ last.op = "createNewPiece") =>
        piece.position.z = (BOARD_DEPTH \div 2) - (Len(piece.shape) \div 2)

\* C23: volumetric build: after an accepted rotate about x, y or z the active
\* piece has a well-formed shape of one depth layer: one layer, which is a grid
\* of rows and columns of sub-cells 0 or 1 (the previous grid transposed and
\* reversed).
\* (Refuted: rotate('x') and rotate('y') build grids whose entries are arrays.)
C23_RotatedShapeWellFormed ==
    (build = "volumetric" /\ piece # Null) =>
        /\ Len(piece.shape) = 1
        /\ \A y \in 1..Len(piece.shape[1]) :
              \A x \in 1..Len(piece.shape[1][y]) : piece.shape[1][y][x] \in {0, 1}

\* C24: in every build, a lock sequence that goes through makes the previous
\* next piece the active piece (same shape and colour, at its spawn position),
\* draws a new next piece and, in the canvas build, sets canStore to true.
C24_LockPromotesNext ==
    [][(last'.locked /\ last'.installed) =>
        /\ nextPiece # Null
        /\ piece' = nextPiece
        /\ piece'.position.x = (extent.width \div 2) - (Len(GridOf(piece')[1]) \div 2)
        /\ piece'.position.y = 0
        /\ \E i \in 1..NumShapes : nextPiece' = New(i)
        /\ build = "canvas" => canStore']_vars

\* A lock of the canvas build that promoted the next piece and gave back the
\* store used since the last lock.
C24_Witness ==
    /\ build = "canvas"
    /\ last.locked
    /\ last.installed
    /\ ~last.blocked
    /\ storedPiece # Null
    /\ canStore
    /\ piece # Null
    /\ piece.position.y = 0

\* The active piece one column (dx) and one layer (dz) further.
ShiftedBy(dx, dz) ==
    IF build = "volumetric"
    THEN [shape |-> piece.shape, color |-> piece.color,
          position |-> [x |-> piece.position.x + dx, y |-> piece.position.y,
                        z |-> piece.position.z + dz]]
    ELSE [shape |-> piece.shape, color |-> piece.color,
          position |-> [x |-> piece.position.x + dx, y |-> piece.position.y]]

\* The shifts a left/right intent can ask for, resp. a forward/backward intent.
SideShifts == {ShiftedBy(-1, 0), ShiftedBy(1, 0)}
DepthShifts == {ShiftedBy(0, -1), ShiftedBy(0, 1)}

\* C25: in every build, a left/right intent (volumetric build: also a
\* forward/backward intent) moves the active piece by exactly 1 in x (resp. z),
\* with its shape and other coordinates unchanged, when the shifted piece
\* passes isValidMove; when it does not, the intent changes nothing.
C25_ShiftIfValid ==
    [][/\ (piece # Null /\ MoveSideways) =>
            /\ \/ piece' \in SideShifts /\ Valid(piece', board)
               \/ piece' = piece /\ \E q \in SideShifts : ~Valid(q, board)
            /\ UNCHANGED <<board, nextPiece, storedPiece, canStore, score, level, speed,
                           gameOver>>
       /\ (piece # Null /\ MoveDepth) =>
            /\ \/ piece' \in DepthShifts /\ Valid(piece', board)
               \/ piece' = piece /\ \E q \in DepthShifts : ~Valid(q, board)
            /\ UNCHANGED <<board, nextPiece, storedPiece, canStore, score, level, speed,
                           gameOver>>]_vars

\* The first O of the volumetric build, one column left of and one layer behind
\* its spawn position, with a further step either way off the board.
C25_Witness ==
    /\ build = "volumetric"
    /\ score = 0
    /\ piece # Null
    /\ piece.shape = << << <<1, 1>>, <<1, 1>> >> >>
    /\ piece.position.x = (extent.width \div 2) - 2
    /\ piece.position.z = (extent.depth \div 2)
    /\ ~Valid(ShiftedBy(0, 1), board)

\* The active piece one row lower.
Lowered ==
    [piece EXCEPT !.position.y = @ + 1]

\* C26: in every build, a soft drop (gravity tick or down intent) moves the
\* active piece down by exactly one row and changes nothing else when the
\* lowered piece is valid; otherwise, and only then, it performs the lock
\* sequence on the piece where it stands.
\* (Refuted: in the canvas build the merge of a piece kicked above the board
\* throws, and the lock sequence is not performed.)
C26_SoftDropMovesOrLocks ==
    [][(piece # Null /\ MoveDown) =>
        IF Valid(Lowered, board)
        THEN /\ piece' = Lowered
             /\ ~last'.locked
             /\ UNCHANGED <<board, nextPiece, storedPiece, canStore, score, level, speed,
                            gameOver>>
        ELSE /\ last'.locked
             /\ last'.op = "moveDown"
             /\ board' = Clear(Merge(piece, board)).newBoard
             /\ score' = score + Clear(Merge(piece, board)).linesCleared
                                 * Clear(Merge(piece, board)).linesCleared * 100 + 10]_vars

\* C27: canvas build: highScore >= score in every reachable state, and
\* whenever a lock (by soft drop or hard drop) raises the score above the
\* stored high score, the high score becomes the new score.
C27_HighScoreFollowsScore ==
    /\ [](build = "canvas" => highScore >= score)
    /\ [][(build = "canvas" /\ last'.locked) =>
            highScore' = (IF score' > highScore THEN score' ELSE highScore)]_vars

\* A hard drop whose lock took the score past the high score found at the start.
C27_Witness ==
    /\ build = "canvas"
    /\ last.locked
    /\ last.op = "hardDrop"
    /\ score > StoredHigh
    /\ score < 2 * StoredHigh
    /\ highScore = score
    /\ locksLeft = MaxLocks - 1

\* plane has the board's rows and columns and only cell values 0 to 7.
PlaneInShape(plane) ==
    /\ Len(plane) = extent.height
    /\ \A y \in 1..Len(plane) :
          /\ Len(plane[y]) = extent.width
          /\ \A x \in 1..Len(plane[y]) : plane[y][x] \in 0..7

\* C28: in every build and every reachable state the board has the dimensions
\* it was constructed with (BOARD_HEIGHT rows of BOARD_WIDTH cells, in each of
\* the BOARD_DEPTH layers of the volumetric build), no merge has written
\* beside it, and every cell value is in 0..7.
C28_BoardKeepsShape ==
    /\ ~last.offside
    /\ IF build = "volumetric"
       THEN /\ Len(board) = extent.depth
            /\ \A z \in 1..Len(board) : PlaneInShape(board[z])
       ELSE PlaneInShape(board)

\* A lock of the volumetric build that removed a row and left cells taken.
C28_Witness ==
    /\ build = "volumetric"
    /\ last.locked
    /\ last.lines > 0
    /\ \E z \in 1..extent.depth, y \in 1..extent.height, x \in 1..extent.width :
          board[z][y][x] # 0

\* C29: 2D builds: rotate computes the clockwise quarter-turn of the shape
\* (new[i][j] = old[rows-1-j][i]) and keeps the position; in the builds without
\* kicks (dom, flat3d) a rotated piece that is not valid leaves the active
\* piece entirely unchanged.
C29_QuarterTurn ==
    [][(piece # Null /\ build # "volumetric" /\ (RotatePlain \/ RotateKick)) =>
        LET rows == Len(piece.shape)
            turn == [i \in 1..Len(piece.shape[1]) |->
                        [j \in 1..rows |-> piece.shape[rows + 1 - j][i]]]
            turned == [shape |-> turn, color |-> piece.color, position |-> piece.position]
        IN  /\ isValidMove(turned, board) => piece' = turned
            /\ piece' # piece => piece'.shape = turn
            /\ (build \in {"dom", "flat3d"} /\ ~isValidMove(turned, board)) =>
                  (piece' = piece /\ board' = board)]_vars

\* The T of the dom build after one rotate, its stem pointing left.
C29_Witness ==
    /\ build = "dom"
    /\ last = Idle
    /\ piece.shape = << <<0, 1>>, <<1, 1>>, <<0, 1>> >>

\* The active piece k rows lower.
LoweredBy(k) == [piece EXCEPT !.position.y = @ + k]

\* C30 as stated: the ray-cast of the hard drop ends for every board and every
\* active piece: its loop runs at most BOARD_HEIGHT times and the row it
\* returns is at most BOARD_HEIGHT - 1.
C30_DropWithinHeight ==
    [][(piece # Null /\ (HardDropCanvas \/ HardDropFlat)) =>
        /\ last'.dist <= BOARD_HEIGHT
        /\ piece.position.y + last'.dist <= BOARD_HEIGHT - 1]_vars

\* C30, amended: the loop runs once for each row between the piece and the
\* lowest row it can reach by valid steps, and the row returned is at most
\* BOARD_HEIGHT - 1: at most BOARD_HEIGHT - 1 - y runs for a piece in row y,
\* which is more than BOARD_HEIGHT for a piece kicked above row -1.
C30_DropWithinReach ==
    [][(piece # Null /\ (HardDropCanvas \/ HardDropFlat)) =>
        /\ last'.dist >= 0
        /\ \A k \in 1..last'.dist : isValidMove(LoweredBy(k), board)
        /\ ~isValidMove(LoweredBy(last'.dist + 1), board)
        /\ piece.position.y + last'.dist <= BOARD_HEIGHT - 1
        /\ last'.dist <= BOARD_HEIGHT - 1 - piece.position.y
        /\ piece.position.y >= -1 => last'.dist <= BOARD_HEIGHT]_vars

\* A hard drop of the canvas build whose loop ran BOARD_HEIGHT + 1 times.
C30_Witness ==
    /\ build = "canvas"
    /\ extent.height = BOARD_HEIGHT
    /\ last.op = "hardDrop"
    /\ last.locked
    /\ last.dist = BOARD_HEIGHT + 1

\* C31: in every build and every reachable state the active piece has exactly
\* four occupied sub-cells as isValidMove and mergePieceToBoard see them.
C31_FourSubCells ==
    piece # Null => Cardinality(PieceCells) = 4

\* The same for the three 2D builds only.
C31_FourSubCells2D ==
    (piece # Null /\ build # "volumetric") => Cardinality(PieceCells) = 4

LevelLag == 1 + (score \div LEVEL_THRESHOLD) - level

C33_PieceEventuallyLocks ==
    \A n \in 1..MaxLocks :
        (piece # Null /\ ~gameOver /\ locksLeft = n) ~> (gameOver \/ locksLeft < n)

\* The same for the builds whose rotate has no kicks.
C33_PieceEventuallyLocksNoKicks ==
    \A n \in 1..MaxLocks :
        (build \notin KickBuilds /\ piece # Null /\ ~gameOver /\ locksLeft = n)
            ~> (gameOver \/ locksLeft < n)

C34_TicksEndGameChecked ==
    build # "dom" => <>gameOver

\* The dom build goes on locking pieces onto the occupied spawn cells.
C34_LocksOnTop ==
    /\ build = "dom"
    /\ last.locked
    /\ last.overlap
    /\ ~gameOver

\* C35: in every build no reachable state has a completely full row in the
\* board (in any depth layer, in the volumetric build): every lock applies
\* clearLines before the board is stored, and only a lock changes the board.
C35_NoFullRow ==
    /\ [](\A z \in 1..Len(Planes(board)) : FullRows(Planes(board)[z]) = {})
    /\ [][board' # board => last'.locked]_vars

\* A lock that completed a row above cells that stay: the row is gone, the
\* board is not empty.
C35_Witness ==
    /\ last.locked
    /\ last.lines >= 1
    /\ \E z \in 1..Len(Planes(board)) :
          \E y \in 1..extent.height : \E x \in 1..extent.width : Planes(board)[z][y][x] # 0

\* C36: in every build, lateral moves, depth moves, rotations and store leave
\* the board, the score, the level, the gravity interval and the gameOver flag
\* unchanged; only a lock, from moveDown or hardDrop, changes the board, the
\* score, the level or the interval; and each lock raises the score by at
\* least 10.
C36_OnlyLocksScore ==
    [][/\ (MoveSideways \/ MoveDepth \/ RotatePlain \/ RotateKick \/ RotateAxis \/ StorePiece)
            => UNCHANGED <<board, score, level, speed, gameOver>>
       /\ <<board, score, level, speed>>' # <<board, score, level, speed>>
            => (last'.locked /\ last'.op \in {"moveDown", "hardDrop"})
       /\ (last'.locked /\ locksLeft' < locksLeft) => score' >= score + 10]_vars

\* A store that took effect after a lock had scored, in a session whose board
\* is not empty.
C36_Witness ==
    /\ last.op = "storePiece"
    /\ last.installed
    /\ score >= 10
    /\ \E y \in 1..extent.height : \E x \in 1..extent.width : board[y][x] # 0

====
